---------------------------- MODULE Spec2Model ----------------------------
(***************************************************************************)
(* A model of the VNRT chart tools                                         *)
(*   src/models/chart/blend_to_maps.py  (get_blend, blend2map)             *)
(*   src/models/chart/refine3.py        (refine_results)                   *)
(* Three programs are modelled, each with its own specification:           *)
(*   SpecRaster : blend2map on one pixel's segment list                    *)
(*   SpecBlend  : get_blend, the row loop over the grid                    *)
(*   SpecRefine : refine_results, the pixel loop and its six rules         *)
(* Sequences are 1-based: slot k of a 16-slot vector is year 2000 + k, and *)
(* python's p[n] is p[n + 1] here.                                         *)
(***************************************************************************)
EXTENDS Integers, Sequences, FiniteSets

VARIABLES
    \* blend2map
    ts,       \* the argument: one pixel's records, in time order
    lead,     \* the local ts after lines 117-120
    full,     \* the local ts after lines 121-124
    map,      \* the local map, returned at line 133
    bpc,      \* position in blend2map: "lead", "trail", "paint", "ret"
    \* get_blend
    lc,       \* the argument lc: "NA" (the default) or "stack" (a stack was read)
    result,   \* the output grid: result[row][column][slot]
    count,    \* the lines counted as successful
    i,        \* the lines the loop at line 73 has been through
    yatsm,    \* per line gone through, what lines 76-79 found for it
    logged,   \* per line gone through, "ok" or the warning of line 88 or 93
    gpc,      \* position in get_blend: "loop", "end", "ret"
    ret,      \* the value returned (-1 before the return)
    written,  \* whether array2stack was handed the grid (line 104)
    \* refine_results
    ori,      \* the raster read from the file ori (line 46), as it is on disk
    plcs,     \* lc after line 48: one context vector per pixel
    r,        \* the array r, refined in place: r[row][column][slot]
    ri,       \* the row the loop at line 65 is at (1-based)
    rj,       \* the column the loop at line 66 is at (1-based)
    fpc,      \* position in refine_results: "rule1" .. "rule6", "next",
              \* "write", "ret"
    fret,     \* the value returned (-1 before the return)
    fwritten  \* whether array2stack was handed r (line 143)

rvars == <<ts, lead, full, map, bpc>>

gvars == <<lc, result, count, i, yatsm, logged, gpc, ret, written>>

fvars == <<ori, plcs, r, ri, rj, fpc, fret, fwritten>>

vars == <<rvars, gvars, fvars>>

\* the values the variables of a program keep while another one is run
IdleRaster ==
    /\ ts = <<>>
    /\ lead = <<>>
    /\ full = <<>>
    /\ map = <<>>
    /\ bpc = "idle"

IdleBlend ==
    /\ lc = "NA"
    /\ result = <<>>
    /\ count = 0
    /\ i = 0
    /\ yatsm = <<>>
    /\ logged = <<>>
    /\ gpc = "idle"
    /\ ret = -1
    /\ written = FALSE

IdleRefine ==
    /\ ori = <<>>
    /\ plcs = <<>>
    /\ r = <<>>
    /\ ri = 0
    /\ rj = 0
    /\ fpc = "idle"
    /\ fret = -1
    /\ fwritten = FALSE

----------------------------------------------------------------------------
(* Bounds of the model *)

\* the longest segment list of one pixel
MaxSegs == 2

\* geo['lines'] and geo['samples'] of the grid get_blend composes
Lines == 3
Samples == 2

\* the lines and samples of the sample grids refine_results is run on
RefLines == 2
RefSamples == 2

----------------------------------------------------------------------------
(* Calendar helpers of the package `common` (ordinal_to_doy, doy_to_ordinal *)
(* and split_doy are imported at blend_to_maps.py:18 and are not part of    *)
(* the files under src/).  An ordinal is the proleptic Gregorian day count  *)
(* with 0001-01-01 = 1; a doy is the number yyyyddd.                        *)

\* the years a modelled date can fall in
CalYears == 1999..2018

\* ordinal of January 1st of year y
YearStart(y) ==
    LET z == y - 1
    IN  365 * z + (z \div 4) - (z \div 100) + (z \div 400) + 1

doy_to_ordinal(d) == YearStart(d \div 1000) + (d % 1000) - 1

ordinal_to_doy(o) ==
    LET y == CHOOSE yy \in CalYears : YearStart(yy) <= o /\ o < YearStart(yy + 1)
    IN  y * 1000 + (o - YearStart(y) + 1)

split_doy(d) == <<d \div 1000, d % 1000>>

----------------------------------------------------------------------------
(* blend2map, blend_to_maps.py:115-133 *)

\* the slots of an annual vector: 2016 - 2001 + 1
NSlots == 16

Slots == 1..NSlots

\* line 116: np.zeros(2016 - 2001 + 1, np.int8) + 254
BlankMap == [k \in Slots |-> 254]

\* AddLeading as the day-of-year reading has it: the test is on the day within
\* the start's own year
AddLeading_dayOfYear(s) ==
    IF split_doy(ordinal_to_doy(s[1].start))[2] > 270
    THEN <<[s[1] EXCEPT !.start = doy_to_ordinal(2001001),
                        !.end = s[1].start]>> \o s
    ELSE s

\* AddLeading copying the second record where there is one
AddLeading_second(s) ==
    LET src == IF Len(s) >= 2 THEN s[2] ELSE s[1]
    IN  IF ordinal_to_doy(s[1].start) > 2001270
        THEN <<[src EXCEPT !.start = doy_to_ordinal(2001001),
                           !.end = s[1].start]>> \o s
        ELSE s

\* lines 117-120: a copy of the first record is put in front, its start set
\* to 2001-001 and its end to the first record's start
AddLeading(s) ==
    IF ordinal_to_doy(s[1].start) > 2001270
    THEN <<[s[1] EXCEPT !.start = doy_to_ordinal(2001001),
                        !.end = s[1].start]>> \o s
    ELSE s

\* lines 121-124: a copy of the (current) first record is put at the end,
\* its start set to the last record's end and its end to 2016-365
AddTrailing(s) ==
    IF ordinal_to_doy(s[Len(s)].end) < 2016001
    THEN Append(s, [s[1] EXCEPT !.start = s[Len(s)].end,
                                !.end = doy_to_ordinal(2016365)])
    ELSE s

\* lines 126-129: the first and the last year a record is painted on
StartYear(x) ==
    LET sd == split_doy(ordinal_to_doy(x.start))
    IN  IF sd[2] > 270 THEN sd[1] + 1 ELSE sd[1]

EndYear(x) == split_doy(ordinal_to_doy(x.end))[1]

\* PaintOne with the end year excluded: range(_start[0], _end[0])
PaintOne_exclusive(m, x) ==
    LET sy == StartYear(x)
        ey == EndYear(x)
    IN  [k \in Slots |->
            IF sy <= 2000 + k /\ 2000 + k < ey THEN x.class ELSE m[k]]

\* lines 130-132: the years of one record written into the map
PaintOne(m, x) ==
    LET sy == StartYear(x)
        ey == EndYear(x)
    IN  [k \in Slots |->
            IF sy <= 2000 + k /\ 2000 + k < ey + 1 THEN x.class ELSE m[k]]

\* lines 125-132: the loop over the first n records, later ones overwriting
RECURSIVE PaintAll(_, _)
PaintAll(s, n) ==
    IF n = 0 THEN BlankMap ELSE PaintOne(PaintAll(s, n - 1), s[n])

blend2map(s) ==
    LET s2 == AddTrailing(AddLeading(s))
    IN  PaintAll(s2, Len(s2))

----------------------------------------------------------------------------
(* Inputs of blend2map *)

\* sample dates (yyyyddd): before the window, its first day, both sides of
\* 2001-270, both sides of day 270 of a later year, both sides of 2016-001,
\* and the window's last day
SampleDoys ==
    {2000300, 2001001, 2001270, 2001271, 2003270, 2003271,
     2015365, 2016001, 2016365}

Days == {doy_to_ordinal(d) : d \in SampleDoys}

\* class codes of the sample records
SegClasses == {5, 13, 18}

\* the time-ordered lists of n records: start <= end within a record, and a
\* record starts no earlier than the one before it ends
Stamps(n) ==
    {t \in [1..(2 * n) -> Days] : \A k \in 1..(2 * n - 1) : t[k] <= t[k + 1]}

MkList(n, t, c) ==
    [k \in 1..n |-> [start |-> t[2 * k - 1], end |-> t[2 * k], class |-> c[k]]]

----------------------------------------------------------------------------
(* get_blend, blend_to_maps.py:24-112 *)

Rows == 1..Lines
Cols == 1..Samples

\* line 68: np.zeros((lines, samples, 16), np.int8) + 255, one pixel and one row
BlankPixel == [k \in Slots |-> 255]
BlankRow == [j \in Cols |-> BlankPixel]

\* np.bincount(v).argmax(): the smallest of the most frequent values of v
Occurrences(v, c) == Cardinality({k \in DOMAIN v : v[k] = c})

Majority(v) ==
    LET vals == {v[k] : k \in DOMAIN v}
        best == {c \in vals : \A d \in vals : Occurrences(v, c) >= Occurrences(v, d)}
    IN  CHOOSE c \in best : \A d \in best : c <= d

\* lc_stack[row, column, :] (line 61), for the sample stack: all barren on
\* the even diagonals, half grassland and half cropland on the odd ones
LcAt(row, col) ==
    IF (row + col) % 2 = 0 THEN [k \in Slots |-> 16]
    ELSE [k \in Slots |-> IF k <= 8 THEN 12 ELSE 10]

\* the records yatsm2records holds for one pixel of the sample caches
TsOf(row, col) ==
    IF (row + col) % 2 = 0
    THEN <<[start |-> doy_to_ordinal(2001001), end |-> doy_to_ordinal(2016365),
            class |-> 5]>>
    ELSE <<[start |-> doy_to_ordinal(2003271), end |-> doy_to_ordinal(2010100),
            class |-> 13],
           [start |-> doy_to_ordinal(2010101), end |-> doy_to_ordinal(2015365),
            class |-> 18]>>

\* line 82, right-hand side: blend2map on the records of each sample pixel
Rasterized == [row \in Rows, col \in Cols |-> blend2map(TsOf(row, col))]

\* line 85, right-hand side, one pixel: the most frequent class of
\* lc_stack[i, j, :] in all 16 slots
Filled == [row \in Rows, col \in Cols |->
              [k \in Slots |-> Majority(LcAt(row, col))]]

\* what lines 76-79 can find for a line: no file (kind "none"), a file that
\* yatsm2records cannot read ("corrupt"), or a file ("records") with the
\* records of some of the line's pixels in column order; pxs lists px, the
\* python column, of each record, and a record with px = Samples lies
\* outside the grid
PxSets == SUBSET (0..Samples)

RECURSIVE Sorted(_)
Sorted(S) ==
    IF S = {} THEN <<>>
    ELSE LET m == CHOOSE x \in S : \A y \in S : x <= y
         IN  <<m>> \o Sorted(S \ {m})

NoCache == [kind |-> "none", pxs |-> <<>>]

Caches ==
    {NoCache, [kind |-> "corrupt", pxs |-> <<>>]}
        \cup {[kind |-> "records", pxs |-> Sorted(S)] : S \in PxSets}

\* lines 80-82: the first n records of _line rasterized into the row; exc is
\* set where the store at line 82 raises (px outside the grid) and the rest
\* of the try block is skipped
RECURSIVE RasterRecords(_, _, _, _)
RasterRecords(row, line, pxs, n) ==
    IF n = 0 THEN [row |-> row, exc |-> FALSE]
    ELSE LET st == RasterRecords(row, line, pxs, n - 1)
             px == pxs[n]
         IN  IF st.exc THEN st
             ELSE IF px \notin 0..(Samples - 1) THEN [st EXCEPT !.exc = TRUE]
             ELSE [st EXCEPT !.row[px + 1] = Rasterized[line, px + 1]]

\* lines 83-85: the first n pixels of the row looked at; a pixel still at
\* 255 in all 16 slots is filled from lc_stack, which is unbound when lc is
\* 'NA' (lines 57-64), so that the fill raises
RECURSIVE FillRow(_, _, _, _)
FillRow(st0, line, lcarg, n) ==
    IF n = 0 THEN st0
    ELSE LET st == FillRow(st0, line, lcarg, n - 1)
         IN  IF st.exc THEN st
             ELSE IF st.row[n] # BlankPixel THEN st
             ELSE IF lcarg = "NA" THEN [st EXCEPT !.exc = TRUE]
             ELSE [st EXCEPT !.row[n] = Filled[line, n]]

\* lines 78-85 for a cache that was found: the row as the try block leaves
\* it, and whether it raised
TryRow(row, line, cache, lcarg) ==
    IF cache.kind = "corrupt" THEN [row |-> row, exc |-> TRUE]
    ELSE FillRow(RasterRecords(row, line, cache.pxs, Len(cache.pxs)),
                 line, lcarg, Samples)

----------------------------------------------------------------------------
(* refine_results, refine3.py:20-151: the rules applied to one pixel.  p is  *)
(* the pixel's vector r[i, j, :] (a view: the rules write into r) and plc    *)
(* its context lc[i, j, 0:16].                                               *)

\* line 37: m2c, indexed from 0
m2c == <<0, 2, 2, 4, 4, 5, 10, 10, 9, 9, 10, 11, 12, 13, 12, 16, 16, 25,
         0, 0, 0, 0, 0, 0, 0, 0, 0, 0, 0>>

\* m2c[c] raises IndexError outside 0..28
InTable(c) == c \in 0..(Len(m2c) - 1)

Lookup(c) == m2c[c + 1]

\* np.bincount(v[mask]).argmax(), the mask being the set S of positions
MajorityAt(v, S) ==
    LET vals == {v[k] : k \in S}
        n(c) == Cardinality({k \in S : v[k] = c})
        best == {c \in vals : \A d \in vals : n(c) >= n(d)}
    IN  CHOOSE c \in best : \A d \in best : c <= d

Where(p, c) == {k \in Slots : p[k] = c}

\* p[S] = c
Assign(p, S, c) == [k \in Slots |-> IF k \in S THEN c ELSE p[k]]

\* lines 95-97: python's p[k - 1] at k = 0 is the last slot
RECURSIVE ForwardFill(_, _)
ForwardFill(p, n) ==
    IF n = 0 THEN p
    ELSE LET q == ForwardFill(p, n - 1)
         IN  IF q[n] = 0
             THEN [q EXCEPT ![n] = q[IF n = 1 THEN NSlots ELSE n - 1]]
             ELSE q

\* line 77 raises: the most frequent context class at the unclassified
\* positions is no index of m2c
Rule1Raises(p, plc) ==
    /\ Where(p, 0) # {}
    /\ ~InTable(MajorityAt(plc, Where(p, 0)))

\* lines 74-98
Rule1(p, plc) ==
    LET uc == Where(p, 0)
        p_label == Lookup(MajorityAt(plc, uc))
        classified == Slots \ uc
        first == CHOOSE k \in classified : \A d \in classified : k <= d
        last == CHOOSE k \in classified : \A d \in classified : k >= d
    IN  IF uc = {} THEN p
        ELSE IF Cardinality(uc) > 10 THEN Assign(p, uc, p_label)
        ELSE IF p[1] = 0
            THEN IF p_label \in {13, 25} THEN Assign(p, uc, p_label)
                 ELSE Assign(p, uc, p[first])
        ELSE IF p[NSlots] = 0
            THEN IF p_label \in {13, 25} THEN Assign(p, uc, p_label)
                 ELSE Assign(p, uc, p[last])
        ELSE IF Cardinality(uc) < 3 THEN ForwardFill(p, NSlots)
        ELSE p

\* lines 100-108: p[3] is slot 4 here
Rule2(p) ==
    IF p[4] # 18
    THEN [k \in Slots |-> IF k \in 1..3 /\ p[k] = 18 THEN p[4] ELSE p[k]]
    ELSE p

UrbanIn(p, plc, c) == {k \in Slots : p[k] = 13 /\ plc[k] = c}

\* lines 110-113
Rule3(p, plc) ==
    IF Cardinality(UrbanIn(p, plc, 16)) >= 5
    THEN Assign(p, UrbanIn(p, plc, 16), 16) ELSE p

\* lines 114-117
Rule4(p, plc) ==
    IF Cardinality(UrbanIn(p, plc, 10)) >= 5
    THEN Assign(p, UrbanIn(p, plc, 10), 10) ELSE p

UrbanNotIn(p, plc) == {k \in Slots : p[k] = 13 /\ plc[k] # 13}

\* Rule5 with the majority taken over the urban-not-urban-context positions
Rule5_subset(p, plc) ==
    LET S == UrbanNotIn(p, plc)
    IN  IF Cardinality(S) >= 8
        THEN LET sub == MajorityAt(plc, S)
             IN  IF sub = 10 THEN Assign(p, S, 10)
                 ELSE IF sub = 12 THEN Assign(p, S, 12)
                 ELSE p
        ELSE p

\* lines 70-71, 119-125: plc_label is the most frequent class of all of plc
Rule5(p, plc) ==
    LET S == UrbanNotIn(p, plc)
        plc_label == MajorityAt(plc, Slots)
    IN  IF Cardinality(S) >= 8
        THEN IF plc_label = 10 THEN Assign(p, S, 10)
             ELSE IF plc_label = 12 THEN Assign(p, S, 12)
             ELSE p
        ELSE p

\* line 130 raises
Rule6Raises(p, plc) ==
    /\ p[1] = 13
    /\ p[NSlots] = 12
    /\ ~InTable(MajorityAt(plc, Where(p, 13)))

\* lines 127-131
Rule6(p, plc) ==
    IF p[1] = 13 /\ p[NSlots] = 12
    THEN Assign(p, Where(p, 13), Lookup(MajorityAt(plc, Where(p, 13))))
    ELSE p

----------------------------------------------------------------------------
(* Inputs of refine_results *)

\* vectors of up to three runs of classes, cut after the slots c1 <= c2
Runs(c1, c2, a, b, c) ==
    [k \in Slots |-> IF k <= c1 THEN a ELSE IF k <= c2 THEN b ELSE c]

\* classes of the sample pixels: unclassified, cropland, urban, plantation
PClasses == {0, 12, 13, 18}

\* cuts that put the runs on both sides of the rules' tests (slot 4; 3, 5,
\* 8 and more than 10 positions)
PCuts == {0, 1, 3, 4, 8, 11, 16}

\* context classes: grassland, cropland, urban, barren, and a code that is
\* no index of m2c
CClasses == {10, 12, 13, 16, 40}

CCuts == {5, 8, 16}

\* the sample grids of more than one pixel: the pixel at (a, b)
NormalPixel(a, b) ==
    IF (a + b) % 2 = 0 THEN Runs(1, 3, 0, 18, 12) ELSE Runs(8, 16, 13, 12, 12)

NormalContext(a, b) ==
    IF (a + b) % 2 = 0 THEN Runs(5, 16, 12, 10, 10) ELSE Runs(8, 16, 16, 10, 10)

\* a pixel line 77 raises on, and one line 130 raises on
BadPixel(kind) ==
    IF kind = "rule1" THEN Runs(1, 16, 0, 12, 12) ELSE Runs(4, 16, 13, 12, 12)

BadContext == Runs(16, 16, 40, 40, 40)

RefRows == 1..RefLines
RefCols == 1..RefSamples

----------------------------------------------------------------------------
(* SpecRefine: refine_results from line 62 on *)

\* one pixel, with every sample vector and context
InitOnePixel ==
    \E c1 \in PCuts, c2 \in PCuts, a \in PClasses, b \in PClasses,
       c \in PClasses, d \in CCuts, x \in CClasses, y \in CClasses :
        /\ c1 <= c2
        /\ ori = <<(<<Runs(c1, c2, a, b, c)>>)>>
        /\ plcs = <<(<<Runs(d, d, x, y, y)>>)>>

\* a grid of RefLines x RefSamples pixels, none or one of which raises
InitGrid ==
    \/ /\ ori = [a \in RefRows |-> [b \in RefCols |-> NormalPixel(a, b)]]
       /\ plcs = [a \in RefRows |-> [b \in RefCols |-> NormalContext(a, b)]]
    \/ \E fa \in RefRows, fb \in RefCols, kind \in {"rule1", "rule6"} :
          /\ ori = [a \in RefRows |-> [b \in RefCols |->
                        IF a = fa /\ b = fb THEN BadPixel(kind)
                        ELSE NormalPixel(a, b)]]
          /\ plcs = [a \in RefRows |-> [b \in RefCols |->
                        IF a = fa /\ b = fb THEN BadContext
                        ELSE NormalContext(a, b)]]

\* lines 43-64
InitRefine ==
    /\ (InitGrid \/ InitOnePixel)
    /\ r = ori
    /\ ri = 1
    /\ rj = 1
    /\ fpc = "rule1"
    /\ fret = -1
    /\ fwritten = FALSE
    /\ IdleRaster
    /\ IdleBlend

\* r[i, j, :] and lc[i, j, 0:16] of the pixel the loops are at
p == r[ri][rj]
plc == plcs[ri][rj]

Store(q, next) ==
    /\ r' = [r EXCEPT ![ri][rj] = q]
    /\ fpc' = next
    /\ UNCHANGED <<ori, plcs, ri, rj, fret, fwritten, rvars, gvars>>

\* lines 67-98
ApplyRule1 == fpc = "rule1" /\ ~Rule1Raises(p, plc) /\ Store(Rule1(p, plc), "rule2")

\* ApplyRule2 testing the pixel as it was read, not as rule 1 left it
ApplyRule2_fromInput ==
    /\ fpc = "rule2"
    /\ Store([k \in Slots |->
                IF k \in 1..3 /\ ori[ri][rj][k] = 18 /\ ori[ri][rj][4] # 18
                THEN ori[ri][rj][4] ELSE p[k]], "rule3")

\* lines 100-108
ApplyRule2 == fpc = "rule2" /\ Store(Rule2(p), "rule3")

\* lines 110-113
ApplyRule3 == fpc = "rule3" /\ Store(Rule3(p, plc), "rule4")

\* lines 114-117
ApplyRule4 == fpc = "rule4" /\ Store(Rule4(p, plc), "rule5")

\* lines 119-125
ApplyRule5 == fpc = "rule5" /\ Store(Rule5(p, plc), "rule6")

\* lines 127-131
ApplyRule6 == fpc = "rule6" /\ ~Rule6Raises(p, plc) /\ Store(Rule6(p, plc), "next")

\* Raise with the handler inside the row loop: the row is given up and the
\* loop goes on
Raise_skipRow ==
    /\ \/ fpc = "rule1" /\ Rule1Raises(p, plc)
       \/ fpc = "rule6" /\ Rule6Raises(p, plc)
    /\ IF ri < Len(r)
       THEN ri' = ri + 1 /\ rj' = 1 /\ fpc' = "rule1"
       ELSE UNCHANGED <<ri, rj>> /\ fpc' = "write"
    /\ UNCHANGED <<ori, plcs, r, fret, fwritten, rvars, gvars>>

\* lines 63, 136-138: an exception anywhere in the loops reaches the one
\* handler around them; the function returns 3
Raise ==
    /\ \/ fpc = "rule1" /\ Rule1Raises(p, plc)
       \/ fpc = "rule6" /\ Rule6Raises(p, plc)
    /\ fret' = 3
    /\ fpc' = "ret"
    /\ UNCHANGED <<ori, plcs, r, ri, rj, fwritten, rvars, gvars>>

\* lines 65-66, 133-135: the next pixel, the next row, or the end of the loops
NextPixel ==
    /\ fpc = "next"
    /\ \/ /\ rj < Len(r[ri])
          /\ rj' = rj + 1
          /\ ri' = ri
          /\ fpc' = "rule1"
       \/ /\ rj = Len(r[ri])
          /\ ri < Len(r)
          /\ rj' = 1
          /\ ri' = ri + 1
          /\ fpc' = "rule1"
       \/ /\ rj = Len(r[ri])
          /\ ri = Len(r)
          /\ UNCHANGED <<ri, rj>>
          /\ fpc' = "write"
    /\ UNCHANGED <<ori, plcs, r, fret, fwritten, rvars, gvars>>

\* lines 141-151: array2stack is handed r; it raising gives 4
WriteRefined ==
    /\ fpc = "write"
    /\ fwritten' = TRUE
    /\ \E code \in {0, 4} : fret' = code
    /\ fpc' = "ret"
    /\ UNCHANGED <<ori, plcs, r, ri, rj, rvars, gvars>>

NextRefine ==
    \/ ApplyRule1 \/ ApplyRule2 \/ ApplyRule3 \/ ApplyRule4 \/ ApplyRule5
    \/ ApplyRule6 \/ Raise \/ NextPixel \/ WriteRefined

SpecRefine == InitRefine /\ [][NextRefine]_vars

----------------------------------------------------------------------------
(* SpecBlend: get_blend from line 68 on *)

\* lines 56-69
InitBlend ==
    /\ lc \in {"NA", "stack"}
    /\ result = [k \in Rows |-> BlankRow]
    /\ count = 0
    /\ i = 0
    /\ yatsm = <<>>
    /\ logged = <<>>
    /\ gpc = "loop"
    /\ ret = -1
    /\ written = FALSE
    /\ IdleRaster
    /\ IdleRefine

\* RowNoCache with the fallback fill of line 85 applied to the line
RowNoCache_filled ==
    /\ gpc = "loop"
    /\ i < Lines
    /\ yatsm' = Append(yatsm, NoCache)
    /\ logged' = Append(logged, "nofile")
    /\ result' = [result EXCEPT ![i + 1] =
                      IF lc = "NA" THEN @ ELSE [j \in Cols |-> Filled[i + 1, j]]]
    /\ i' = i + 1
    /\ UNCHANGED <<lc, count, gpc, ret, written, rvars, fvars>>

\* lines 76-78, 87-91: no file for the line
RowNoCache ==
    /\ gpc = "loop"
    /\ i < Lines
    /\ yatsm' = Append(yatsm, NoCache)
    /\ logged' = Append(logged, "nofile")
    /\ i' = i + 1
    /\ UNCHANGED <<lc, result, count, gpc, ret, written, rvars, fvars>>

\* RowDone counting a line only when a record of it was rasterized
RowDone_rasterized ==
    /\ gpc = "loop"
    /\ i < Lines
    /\ \E c \in Caches \ {NoCache} :
          LET st == TryRow(result[i + 1], i + 1, c, lc)
          IN  /\ ~st.exc
              /\ yatsm' = Append(yatsm, c)
              /\ result' = [result EXCEPT ![i + 1] = st.row]
              /\ count' = IF Len(c.pxs) > 0 THEN count + 1 ELSE count
    /\ logged' = Append(logged, "ok")
    /\ i' = i + 1
    /\ UNCHANGED <<lc, gpc, ret, written, rvars, fvars>>

\* lines 76-86, 89-91: the line's cache is read and the try block completes
\* (show_progress and log.info, lines 89-91, are taken not to raise)
RowDone ==
    /\ gpc = "loop"
    /\ i < Lines
    /\ \E c \in Caches \ {NoCache} :
          LET st == TryRow(result[i + 1], i + 1, c, lc)
          IN  /\ ~st.exc
              /\ yatsm' = Append(yatsm, c)
              /\ result' = [result EXCEPT ![i + 1] = st.row]
    /\ count' = count + 1
    /\ logged' = Append(logged, "ok")
    /\ i' = i + 1
    /\ UNCHANGED <<lc, gpc, ret, written, rvars, fvars>>

\* RowFailed with the exception ending the loop (the try around the loop)
RowFailed_abort ==
    /\ gpc = "loop"
    /\ i < Lines
    /\ \E c \in Caches \ {NoCache} :
          LET st == TryRow(result[i + 1], i + 1, c, lc)
          IN  /\ st.exc
              /\ yatsm' = Append(yatsm, c)
              /\ result' = [result EXCEPT ![i + 1] = st.row]
    /\ logged' = Append(logged, "failed")
    /\ i' = i + 1
    /\ gpc' = "end"
    /\ UNCHANGED <<lc, count, ret, written, rvars, fvars>>

\* lines 76-85, 92-94: the try block raises; what it stored in result
\* before stays, the warning is logged and the loop goes on
RowFailed ==
    /\ gpc = "loop"
    /\ i < Lines
    /\ \E c \in Caches \ {NoCache} :
          LET st == TryRow(result[i + 1], i + 1, c, lc)
          IN  /\ st.exc
              /\ yatsm' = Append(yatsm, c)
              /\ result' = [result EXCEPT ![i + 1] = st.row]
    /\ logged' = Append(logged, "failed")
    /\ i' = i + 1
    /\ UNCHANGED <<lc, count, gpc, ret, written, rvars, fvars>>

\* line 73: the range is exhausted
LoopEnd ==
    /\ gpc = "loop"
    /\ i = Lines
    /\ gpc' = "end"
    /\ UNCHANGED <<lc, result, count, i, yatsm, logged, ret, written, rvars, fvars>>

\* lines 97-99
Nothing ==
    /\ gpc = "end"
    /\ count = 0
    /\ ret' = 3
    /\ gpc' = "ret"
    /\ UNCHANGED <<lc, result, count, i, yatsm, logged, written, rvars, fvars>>

\* lines 102-112: array2stack is handed the grid and answers 0 or more
WriteOutput ==
    /\ gpc = "end"
    /\ count # 0
    /\ written' = TRUE
    /\ \E code \in {0, 4} : ret' = code
    /\ gpc' = "ret"
    /\ UNCHANGED <<lc, result, count, i, yatsm, logged, rvars, fvars>>

NextBlend ==
    RowNoCache \/ RowDone \/ RowFailed \/ LoopEnd \/ Nothing \/ WriteOutput

SpecBlend == InitBlend /\ [][NextBlend]_vars

----------------------------------------------------------------------------
(* SpecRaster: blend2map as a state machine *)

InitRaster ==
    /\ \E n \in 1..MaxSegs : \E t \in Stamps(n) : \E c \in [1..n -> SegClasses] :
            ts = MkList(n, t, c)
    /\ lead = <<>>
    /\ full = <<>>
    /\ map = BlankMap
    /\ bpc = "lead"
    /\ IdleBlend
    /\ IdleRefine

\* lines 117-120
Leading ==
    /\ bpc = "lead"
    /\ lead' = AddLeading(ts)
    /\ bpc' = "trail"
    /\ UNCHANGED <<ts, full, map, gvars, fvars>>

\* lines 121-124
Trailing ==
    /\ bpc = "trail"
    /\ full' = AddTrailing(lead)
    /\ bpc' = "paint"
    /\ UNCHANGED <<ts, lead, map, gvars, fvars>>

\* lines 125-133
Paint ==
    /\ bpc = "paint"
    /\ map' = PaintAll(full, Len(full))
    /\ bpc' = "ret"
    /\ UNCHANGED <<ts, lead, full, gvars, fvars>>

NextRaster == Leading \/ Trailing \/ Paint

SpecRaster == InitRaster /\ [][NextRaster]_vars

----------------------------------------------------------------------------
(* Properties of blend2map, checked under SpecRaster *)

\* day within its own year, and year, of an ordinal
DayOfYear(o) == split_doy(ordinal_to_doy(o))[2]
YearOf(o) == split_doy(ordinal_to_doy(o))[1]

LeadAdded == bpc # "lead" /\ Len(lead) = Len(ts) + 1
TrailAdded == bpc \in {"paint", "ret"} /\ Len(full) = Len(lead) + 1

\* the list reaches from 2001-001 to 2016-365 and each record starts no
\* later than the day after the one before it ends
Covering(s) ==
    /\ s[1].start <= doy_to_ordinal(2001001)
    /\ s[Len(s)].end >= doy_to_ordinal(2016365)
    /\ \A k \in 1..(Len(s) - 1) : s[k + 1].start <= s[k].end + 1

\* C6: for a time-ordered list that covers 2001-001..2016-365 without a gap,
\* every slot blend2map returns holds the class of one of the list's records
\* and none holds 254 or 255, records starting after day 270 included.
C6_CoveredNoSentinel ==
    (bpc = "ret" /\ Covering(ts)) =>
        \A k \in Slots :
            /\ map[k] \in {ts[n].class : n \in 1..Len(ts)}
            /\ map[k] \notin {254, 255}

C6_Witness ==
    /\ bpc = "ret"
    /\ Covering(ts)
    /\ Len(ts) = 2
    /\ DayOfYear(ts[2].start) > 270
    /\ ts[1].class # ts[2].class
    /\ map[1] = ts[1].class
    /\ map[NSlots] = ts[2].class

\* C9 as claimed: with two or more records the synthesized leading record
\* carries the class of the second record and the synthesized trailing record
\* that of the first, so the years from 2001 to the first record's start year
\* hold the second record's class.
C9_LeadingSecondClass ==
    /\ (LeadAdded /\ Len(ts) >= 2) => lead[1].class = ts[2].class
    /\ TrailAdded => full[Len(full)].class = ts[1].class
    /\ (bpc = "ret" /\ LeadAdded /\ Len(ts) >= 2) =>
            \A k \in Slots :
                2000 + k < YearOf(ts[1].start) => map[k] = ts[2].class

\* C9 amended: the synthesized leading record carries the class of the first
\* record, as the synthesized trailing record does, so the years from 2001 up
\* to the year before the first record's start year hold the first record's
\* class.
C9_LeadingFirstClass ==
    /\ LeadAdded => lead[1].class = ts[1].class
    /\ TrailAdded => full[Len(full)].class = ts[1].class
    /\ (bpc = "ret" /\ LeadAdded) =>
            \A k \in Slots :
                2000 + k < YearOf(ts[1].start) => map[k] = ts[1].class

C9_Witness ==
    /\ bpc = "ret"
    /\ LeadAdded
    /\ TrailAdded
    /\ Len(ts) = 2
    /\ ts[1].class # ts[2].class
    /\ YearOf(ts[1].start) > 2001

\* C10 as claimed: a leading record is synthesized exactly when the day of
\* the first start within its own year exceeds 270; a first record starting
\* on day 270 or earlier of a year from 2001 to 2016 gets none and the years
\* before its start year stay unresolved.
C10_LeadingIffLateInYear ==
    /\ bpc # "lead" => (LeadAdded <=> DayOfYear(ts[1].start) > 270)
    /\ (bpc = "ret" /\ DayOfYear(ts[1].start) <= 270
            /\ YearOf(ts[1].start) \in 2001..2016) =>
            \A k \in Slots : 2000 + k < YearOf(ts[1].start) => map[k] = 254

\* C10 amended: a leading record, from 2001-001 to the first start, is
\* synthesized exactly when the first start, as the number yyyyddd, exceeds
\* 2001270; a first record starting later than 2001-270 gets it whatever its
\* day of year, so the years before its start year are resolved.
C10_LeadingIffAfter2001270 ==
    /\ bpc # "lead" =>
            /\ LeadAdded <=> ordinal_to_doy(ts[1].start) > 2001270
            /\ ~LeadAdded => lead = ts
            /\ LeadAdded =>
                    /\ lead[1].start = doy_to_ordinal(2001001)
                    /\ lead[1].end = ts[1].start
                    /\ SubSeq(lead, 2, Len(lead)) = ts
    /\ (bpc = "ret" /\ ordinal_to_doy(ts[1].start) > 2001270) =>
            \A k \in Slots : 2000 + k < YearOf(ts[1].start) => map[k] # 254

C10_Witness ==
    /\ bpc = "ret"
    /\ LeadAdded
    /\ DayOfYear(ts[1].start) <= 270
    /\ YearOf(ts[1].start) = 2003
    /\ map[1] = ts[1].class
    /\ map[2] = ts[1].class

----------------------------------------------------------------------------
(* Properties of get_blend, checked under SpecBlend *)

\* the lines gone through so far
Seen == 1..Len(logged)

\* the row a line's cache gives when it is processed alone, from the blank
\* row, and whether that raises
AloneRow(k) == TryRow(BlankRow, k, yatsm[k], lc)

\* the line has a cache and processing it raises
Raises(k) == yatsm[k].kind # "none" /\ AloneRow(k).exc

\* a record of the cache lies in the grid: blend2map resolved a pixel
SomeRasterized(c) == \E n \in 1..Len(c.pxs) : c.pxs[n] \in 0..(Samples - 1)

\* C1: whatever lines raise, the loop goes on to the last line, every line
\* with a cache that does not raise itself holds the data it holds when
\* processed alone, and count is the number of lines logged as done, so no
\* failed line is counted.
C1_FailureIsolated ==
    gpc = "ret" =>
        /\ i = Lines
        /\ Len(logged) = Lines
        /\ \A k \in Rows :
              (yatsm[k].kind # "none" /\ ~Raises(k)) =>
                  /\ logged[k] = "ok"
                  /\ result[k] = AloneRow(k).row
        /\ \A k \in Rows : Raises(k) => logged[k] = "failed"
        /\ count = Cardinality({k \in Rows : logged[k] = "ok"})

C1_Witness ==
    /\ gpc = "ret"
    /\ ret = 0
    /\ Len(logged) >= 3
    /\ logged[1] = "ok"
    /\ logged[2] = "failed"
    /\ yatsm[2].kind = "corrupt"
    /\ logged[3] = "ok"
    /\ result[1][1] = Rasterized[1, 1]
    /\ result[3][1] = Rasterized[3, 1]
    /\ count = Len(logged) - 1

\* C3 as claimed: a line whose processing raised, at whatever point, has
\* every slot of every pixel still at 255.
C3_FailedRowBlank ==
    \A k \in Seen : logged[k] = "failed" => result[k] = BlankRow

\* C4 as claimed: a line without a cache is reported as not found and every
\* pixel of it holds the most frequent class of its context in all slots.
C4_NoCacheRowFilled ==
    \A k \in Seen :
        yatsm[k].kind = "none" =>
            /\ logged[k] = "nofile"
            /\ \A j \in Cols : result[k][j] = Filled[k, j]

\* C4 amended: a line without a cache is reported as not found and every
\* slot of every pixel of it stays at the fill value 255; the fallback fill
\* is not applied to it.
C4_NoCacheRowBlank ==
    \A k \in Seen :
        yatsm[k].kind = "none" =>
            /\ logged[k] = "nofile"
            /\ result[k] = BlankRow

C4_Witness ==
    /\ gpc = "ret"
    /\ written
    /\ lc = "stack"
    /\ yatsm[2].kind = "none"
    /\ LcAt(2, 2) = [k \in Slots |-> 16]
    /\ result[2][2] = BlankPixel

\* C5 as claimed: after the loop count is the number of lines that did not
\* fail and had at least one pixel resolved from segments by blend2map.
C5_CountRasterized ==
    gpc = "ret" =>
        count = Cardinality({k \in Rows :
                    logged[k] # "failed" /\ SomeRasterized(yatsm[k])})

\* C5 amended: count is incremented for a line exactly when the line has a
\* cache and is processed to the end without an exception, whether or not a
\* pixel of it was resolved from segments; after the loop count is the
\* number of lines with a cache that did not fail.
C5_CountProcessed ==
    count = Cardinality({k \in Seen :
                yatsm[k].kind = "records" /\ ~Raises(k)})

C5_Witness ==
    /\ gpc = "ret"
    /\ lc = "stack"
    /\ \A k \in Rows : yatsm[k].kind = "records" /\ yatsm[k].pxs = <<>>
    /\ \A k \in Rows : \A j \in Cols : result[k][j] = Filled[k, j]
    /\ count = Lines

----------------------------------------------------------------------------
(* Properties of refine_results, checked under SpecRefine *)

\* the pixel as the first n rules leave it, from the vector q
After(n, q, c) ==
    LET q1 == Rule1(q, c)
        q2 == Rule2(q1)
        q3 == Rule3(q2, c)
        q4 == Rule4(q3, c)
        q5 == Rule5(q4, c)
    IN  CASE n = 0 -> q [] n = 1 -> q1 [] n = 2 -> q2 [] n = 3 -> q3
          [] n = 4 -> q4 [] n = 5 -> q5 [] n = 6 -> Rule6(q5, c)

\* refining the pixel raises
RaisesOn(q, c) == Rule1Raises(q, c) \/ Rule6Raises(After(5, q, c), c)

\* the pixel the loops are at, as it was read
Orig == ori[ri][rj]

\* pixel (a, b) comes before pixel (c, d) in the loops' order
Before(a, b, c, d) == a < c \/ (a = c /\ b < d)

Pixels == {<<a, b>> : a \in 1..Len(ori), b \in 1..Len(ori[1])}

Raising == {x \in Pixels : RaisesOn(ori[x[1]][x[2]], plcs[x[1]][x[2]])}

\* C2 as claimed: an exception in a row is kept to that row: the run is not
\* aborted, every row without a raising pixel is refined, and the refined
\* grid is handed to the writer.
C2_RowFailureIsolated ==
    fpc = "ret" =>
        /\ fwritten
        /\ fret # 3
        /\ \A x \in Pixels :
              (\A y \in Raising : y[1] # x[1]) =>
                  r[x[1]][x[2]] = After(6, ori[x[1]][x[2]], plcs[x[1]][x[2]])

\* C2 amended: an exception raised while refining a pixel aborts the run:
\* the function returns 3 at that pixel, the pixels before it are refined,
\* the pixels after it (the rest of its row and every later row) are left
\* as read, and the grid is not written out; without an exception every
\* pixel is refined and the grid is handed to the writer.
C2_FailureAborts ==
    fpc = "ret" =>
        IF Raising # {}
        THEN /\ fret = 3
             /\ ~fwritten
             /\ <<ri, rj>> \in Raising
             /\ \A x \in Pixels :
                   /\ Before(x[1], x[2], ri, rj) =>
                         /\ x \notin Raising
                         /\ r[x[1]][x[2]] =
                                After(6, ori[x[1]][x[2]], plcs[x[1]][x[2]])
                   /\ Before(ri, rj, x[1], x[2]) =>
                         r[x[1]][x[2]] = ori[x[1]][x[2]]
        ELSE /\ fret \in {0, 4}
             /\ fwritten
             /\ \A x \in Pixels :
                   r[x[1]][x[2]] = After(6, ori[x[1]][x[2]], plcs[x[1]][x[2]])

C2_Witness ==
    /\ fpc = "ret"
    /\ fret = 3
    /\ ~fwritten
    /\ Len(r) >= 2
    /\ ri = 1
    /\ r[2] = ori[2]
    /\ After(6, ori[2][1], plcs[2][1]) # ori[2][1]
    /\ ~RaisesOn(ori[2][1], plcs[2][1])

\* C7: rule 2 is evaluated on the vector rule 1 left, its test of slot 3 and
\* the value it writes included, and each rule reads the vector the rules
\* before it produced.
C7_RulesChained ==
    /\ fpc = "rule3" =>
          LET q == Rule1(Orig, plc)
          IN  p = [k \in Slots |->
                      IF k \in 1..3 /\ q[k] = 18 /\ q[4] # 18 THEN q[4] ELSE q[k]]
    /\ fpc = "rule1" => p = Orig
    /\ fpc = "rule2" => p = After(1, Orig, plc)
    /\ fpc = "rule4" => p = After(3, Orig, plc)
    /\ fpc = "rule5" => p = After(4, Orig, plc)
    /\ fpc = "rule6" => p = After(5, Orig, plc)
    /\ fpc = "next" => p = After(6, Orig, plc)

C7_Witness ==
    /\ fpc = "rule3"
    /\ Orig[1] = 0
    /\ Orig[2] = 18
    /\ Orig[4] = 12
    /\ Rule1(Orig, plc)[1] = 18
    /\ p[1] = 12
    /\ p[2] = 12

\* C8 as claimed: with 8 or more positions urban in the vector and not
\* urban in the context, rule 5 relabels them to 10 or 12 exactly when the
\* most frequent context class over those positions is 10 or 12, and to
\* that class.
C8_SubsetMajority ==
    fpc = "rule6" =>
        LET q == After(4, Orig, plc)
            S == UrbanNotIn(q, plc)
        IN  Cardinality(S) >= 8 =>
                LET sub == MajorityAt(plc, S)
                IN  p = IF sub \in {10, 12} THEN Assign(q, S, sub) ELSE q

\* C8 amended: the decision and the value come from the most frequent class
\* of all 16 context positions: the positions are relabelled to 10 or 12
\* exactly when that class is 10 or 12, whatever the most frequent context
\* class over those positions alone.
C8_WholeMajority ==
    fpc = "rule6" =>
        LET q == After(4, Orig, plc)
            S == UrbanNotIn(q, plc)
        IN  Cardinality(S) >= 8 =>
                LET all == MajorityAt(plc, Slots)
                IN  p = IF all \in {10, 12} THEN Assign(q, S, all) ELSE q

C8_Witness ==
    /\ fpc = "rule6"
    /\ Cardinality(UrbanNotIn(After(4, Orig, plc), plc)) >= 8
    /\ MajorityAt(plc, UrbanNotIn(After(4, Orig, plc), plc)) = 12
    /\ MajorityAt(plc, Slots) = 10
    /\ p = Assign(After(4, Orig, plc), UrbanNotIn(After(4, Orig, plc), plc), 10)

=============================================================================
